---- MODULE Spec2Model ----
(***************************************************************************)
(* String Analyzer API (src/src/index.ts): an in-memory, content-addressed *)
(* store of analysed strings behind five Express handlers.                 *)
(*                                                                         *)
(* A JavaScript string is a sequence of UTF-16 code units; it is modelled  *)
(* as a sequence whose elements are one-code-unit strings.  The three code *)
(* units that are not ASCII are written by their escapes: "\\uD83D" (a     *)
(* high surrogate), "\\uDE00" (a low surrogate) and "\\uFFFD" (the         *)
(* replacement character).                                                 *)
(***************************************************************************)
EXTENDS Integers, Sequences, FiniteSets, TLC

VARIABLES stringStore, request, response

vars == <<stringStore, request, response>>

(***************************************************************************)
(* Bounds of the model.                                                    *)
(***************************************************************************)
\* the largest number of records the store is let to hold
MaxStore == 2

(***************************************************************************)
(* JavaScript strings.                                                     *)
(***************************************************************************)
HighSurrogates == {"\\uD83D"}
LowSurrogates == {"\\uDE00"}
ReplacementChar == "\\uFFFD"

UpperLetters == <<"A","B","C","D","E","F","G","H","I","J","K","L","M",
                  "N","O","P","Q","R","S","T","U","V","W","X","Y","Z">>
LowerLetters == <<"a","b","c","d","e","f","g","h","i","j","k","l","m",
                  "n","o","p","q","r","s","t","u","v","w","x","y","z">>
Digits == <<"0","1","2","3","4","5","6","7","8","9">>
WhiteSpace == {" ", "\t", "\n"}

LowerOf == [c \in {UpperLetters[i] : i \in 1..26} |->
               LowerLetters[CHOOSE i \in 1..26 : UpperLetters[i] = c]]

\* String.prototype.toLowerCase, code unit by code unit
ToLowerUnit(c) == IF c \in DOMAIN LowerOf THEN LowerOf[c] ELSE c

RECURSIVE ToLowerCase(_)
ToLowerCase(s) ==
    IF s = <<>> THEN <<>> ELSE <<ToLowerUnit(Head(s))>> \o ToLowerCase(Tail(s))

\* s.split('').reverse().join('')
RECURSIVE ReverseUnits(_)
ReverseUnits(s) ==
    IF s = <<>> THEN <<>> ELSE Append(ReverseUnits(Tail(s)), Head(s))

\* whether sub occurs in s at place i
StartsWithAt(s, i, sub) ==
    /\ i + Len(sub) - 1 <= Len(s)
    /\ SubSeq(s, i, i + Len(sub) - 1) = sub

\* String.prototype.includes
Includes(s, sub) ==
    \E i \in 1..(Len(s) - Len(sub) + 1) : StartsWithAt(s, i, sub)

\* the string iterator (`for (const char of value)`, `new Set(value)`): a high
\* surrogate followed by a low one is one character of two code units, every
\* other code unit (an unpaired surrogate too) is a character of its own
RECURSIVE CodePoints(_)
CodePoints(s) ==
    IF s = <<>> THEN <<>>
    ELSE IF Len(s) >= 2 /\ s[1] \in HighSurrogates /\ s[2] \in LowSurrogates
         THEN <<SubSeq(s, 1, 2)>> \o CodePoints(SubSeq(s, 3, Len(s)))
         ELSE <<SubSeq(s, 1, 1)>> \o CodePoints(Tail(s))

\* String.prototype.trim
RECURSIVE TrimStart(_)
TrimStart(s) ==
    IF s # <<>> /\ s[1] \in WhiteSpace THEN TrimStart(Tail(s)) ELSE s

Trim(s) == ReverseUnits(TrimStart(ReverseUnits(TrimStart(s))))

\* s.split(/\s+/): the pieces between the maximal runs of white space
RECURSIVE SplitWhiteSpace(_, _)
SplitWhiteSpace(s, piece) ==
    IF s = <<>> THEN <<piece>>
    ELSE IF s[1] \in WhiteSpace
         THEN <<piece>> \o SplitWhiteSpace(TrimStart(s), <<>>)
         ELSE SplitWhiteSpace(Tail(s), Append(piece, s[1]))

\* the digit a code unit stands for, -1 when it is none
DigitValue(c) ==
    IF \E i \in 1..Len(Digits) : Digits[i] = c
    THEN (CHOOSE i \in 1..Len(Digits) : Digits[i] = c) - 1
    ELSE -1

RECURSIVE DigitPrefix(_)
DigitPrefix(s) ==
    IF s # <<>> /\ DigitValue(s[1]) >= 0
    THEN <<s[1]>> \o DigitPrefix(Tail(s))
    ELSE <<>>

RECURSIVE DecimalValue(_)
DecimalValue(ds) ==
    IF ds = <<>> THEN 0
    ELSE 10 * DecimalValue(SubSeq(ds, 1, Len(ds) - 1)) + DigitValue(ds[Len(ds)])

\* parseInt(s, 10): leading white space is skipped, a sign is read, then the
\* longest run of digits; what follows the digits is ignored.  NaN when there
\* is no digit to read.
NaN == [nan |-> TRUE]

ParseInt(s) ==
    LET t == TrimStart(s)
        signed == t # <<>> /\ t[1] \in {"-", "+"}
        ds == DigitPrefix(IF signed THEN Tail(t) ELSE t)
    IN IF ds = <<>> THEN NaN
       ELSE [nan |-> FALSE,
             val |-> IF signed /\ t[1] = "-" THEN 0 - DecimalValue(ds)
                     ELSE DecimalValue(ds)]

IsNaN(n) == n.nan

(***************************************************************************)
(* crypto.createHash('sha256').update(value).digest('hex')                 *)
(***************************************************************************)
\* update(string) hashes the UTF-8 encoding of the string.  UTF-8 encodes
\* Unicode scalar values: a surrogate pair is one scalar value, and a
\* surrogate with no partner has no encoding and is written as U+FFFD.  The
\* encoding is kept as the sequence of the scalar values it encodes.
Utf8Encode(s) ==
    LET cps == CodePoints(s)
    IN [i \in 1..Len(cps) |->
          IF Len(cps[i]) = 1 /\ cps[i][1] \in (HighSurrogates \cup LowSurrogates)
          THEN <<ReplacementChar>>
          ELSE cps[i]]

\* SHA-256 in hexadecimal: a digest is kept as the byte string it is the digest
\* of (no two byte strings of the model share a digest)
Sha256Hex(bytes) == <<"sha256", bytes>>

Hash(value) == Sha256Hex(Utf8Encode(value))

(***************************************************************************)
(* analyzeString                                                           *)
(***************************************************************************)
IsPalindromeOf(value) ==
    LET lowerValue == ToLowerCase(value)
    IN lowerValue = ReverseUnits(lowerValue)

UniqueCharactersOf(value) ==
    LET cps == CodePoints(value)
    IN Cardinality({cps[i] : i \in 1..Len(cps)})

WordCountOf(value) ==
    Len(SelectSeq(SplitWhiteSpace(Trim(value), <<>>), LAMBDA word : Len(word) > 0))

CharacterFrequencyMapOf(value) ==
    LET cps == CodePoints(value)
    IN [char \in {cps[i] : i \in 1..Len(cps)} |->
          Cardinality({i \in 1..Len(cps) : cps[i] = char})]

analyzeString(value) ==
    [length |-> Len(value),
     is_palindrome |-> IsPalindromeOf(value),
     unique_characters |-> UniqueCharactersOf(value),
     word_count |-> WordCountOf(value),
     sha256_hash |-> Hash(value),
     character_frequency_map |-> CharacterFrequencyMapOf(value)]

(***************************************************************************)
(* stringStore: a Map, kept as the sequence of its entries in insertion    *)
(* order; no two entries share a key.                                      *)
(***************************************************************************)
MapHas(m, key) == \E i \in 1..Len(m) : m[i].key = key

MapGet(m, key) == m[CHOOSE i \in 1..Len(m) : m[i].key = key].val

MapSet(m, key, val) ==
    IF MapHas(m, key)
    THEN [i \in 1..Len(m) |-> IF m[i].key = key THEN [key |-> key, val |-> val] ELSE m[i]]
    ELSE Append(m, [key |-> key, val |-> val])

\* a delete that empties the Map (stringStore.clear() for stringStore.delete(hash))
MapDeleteClears(m, key) == <<>>

MapDelete(m, key) == SelectSeq(m, LAMBDA e : e.key # key)

MapValues(m) == [i \in 1..Len(m) |-> m[i].val]

(***************************************************************************)
(* JavaScript values that are not known to be strings, and objects.        *)
(***************************************************************************)
Undefined == [type |-> "undefined"]
StringValue(s) == [type |-> "string", val |-> s]
NumberValue(n) == [type |-> "number", num |-> n]
ArrayValue(a) == [type |-> "object", items |-> a]

\* the object {}
EmptyObject == [k \in {} |-> TRUE]

\* obj[key] !== undefined
Defined(obj, key) == key \in DOMAIN obj

\* obj[key] = val
Put(obj, key, val) == [k \in DOMAIN obj \cup {key} |-> IF k = key THEN val ELSE obj[k]]

\* res.status(code).json(body) / res.status(code).send()
Json(code, body) == [status |-> code, body |-> body]
NoContent(code) == [status |-> code]

(***************************************************************************)
(* String literals of the source.                                          *)
(***************************************************************************)
LitTrue == <<"t","r","u","e">>
LitSingleWord == <<"s","i","n","g","l","e"," ","w","o","r","d">>
LitPalindromic == <<"p","a","l","i","n","d","r","o","m","i","c">>
LitNotPalindromic == <<"n","o","t"," ","p","a","l","i","n","d","r","o","m","i","c">>
LitFirstVowel == <<"f","i","r","s","t"," ","v","o","w","e","l">>
LitLetterZ == <<"l","e","t","t","e","r"," ","z">>
LitLongerThan == <<"l","o","n","g","e","r"," ","t","h","a","n">>
LitLongerThanSp == <<"l","o","n","g","e","r"," ","t","h","a","n"," ">>
LitSpCharacters == <<" ","c","h","a","r","a","c","t","e","r","s">>
LitA == <<"a">>
LitZ == <<"z">>

(***************************************************************************)
(* 1. POST /strings                                                        *)
(***************************************************************************)
\* the duplicate check left out
AlreadyStoredUnchecked(store, id) == FALSE

\* stringStore.has(id), the duplicate check of the handler
AlreadyStored(store, id) == MapHas(store, id)

\* the handler's result: the store it leaves and the response it sends
PostStrings(store, clock, body) ==
    LET value == body.value
        properties == analyzeString(value.val)
        id == properties.sha256_hash
        newString == [id |-> id, value |-> value.val,
                      properties |-> properties, created_at |-> clock]
    IN IF value.type = "undefined"
       THEN [store |-> store,
             res |-> Json(400, [error |-> "Bad Request: Missing \"value\" field"])]
       ELSE IF value.type # "string"
       THEN [store |-> store,
             res |-> Json(422, [error |-> "Unprocessable Entity: Invalid data type for \"value\" (must be string)"])]
       ELSE IF AlreadyStored(store, id)
       THEN [store |-> store,
             res |-> Json(409, [error |-> "Conflict: String already exists in the system"])]
       ELSE [store |-> MapSet(store, id, newString),
             res |-> Json(201, newString)]

(***************************************************************************)
(* 4. GET /strings/filter-by-natural-language                              *)
(***************************************************************************)
\* lowerQuery.match(/longer than (\d+) characters/): the places where the
\* pattern matches; \d+ takes the whole run of digits, as the code unit after
\* it must be the space of " characters"
LongerThanMatches(lowerQuery) ==
    {i \in 1..Len(lowerQuery) :
        /\ StartsWithAt(lowerQuery, i, LitLongerThanSp)
        /\ LET after == i + Len(LitLongerThanSp)
               ds == DigitPrefix(SubSeq(lowerQuery, after, Len(lowerQuery)))
           IN /\ ds # <<>>
              /\ StartsWithAt(lowerQuery, after + Len(ds), LitSpCharacters)}

\* match[1] of the leftmost match
LongerThanGroup(lowerQuery) ==
    LET i == CHOOSE j \in LongerThanMatches(lowerQuery) :
                 \A k \in LongerThanMatches(lowerQuery) : j <= k
    IN DigitPrefix(SubSeq(lowerQuery, i + Len(LitLongerThanSp), Len(lowerQuery)))

\* the bound taken as N, not N + 1
MinLengthOfSame(digits) == ParseInt(digits).val

\* parseInt(match[1], 10) + 1: "longer than 10" means min_length = 11
MinLengthOf(digits) == ParseInt(digits).val + 1

\* the parsedFilters object after the six rules ran, in the order of the source
ParseNaturalLanguage(query) ==
    LET lowerQuery == ToLowerCase(query)
        f1 == IF Includes(lowerQuery, LitSingleWord)
              THEN Put(EmptyObject, "word_count", 1) ELSE EmptyObject
        f2 == IF Includes(lowerQuery, LitPalindromic)
                 /\ ~Includes(lowerQuery, LitNotPalindromic)
              THEN Put(f1, "is_palindrome", TRUE) ELSE f1
        f3 == IF Includes(lowerQuery, LitNotPalindromic)
              THEN Put(f2, "is_palindrome", FALSE) ELSE f2
        f4 == IF Includes(lowerQuery, LitFirstVowel)
              THEN Put(f3, "contains_character", LitA) ELSE f3
        f5 == IF Includes(lowerQuery, LitLetterZ)
              THEN Put(f4, "contains_character", LitZ) ELSE f4
        f6 == IF Includes(lowerQuery, LitLongerThan)
                 /\ LongerThanMatches(lowerQuery) # {}
              THEN Put(f5, "min_length", MinLengthOf(LongerThanGroup(lowerQuery)))
              ELSE f5
    IN f6

\* the four filter steps over Array.from(stringStore.values())
ApplyParsedFilters(store, parsedFilters) ==
    LET s0 == MapValues(store)
        s1 == IF Defined(parsedFilters, "word_count")
              THEN SelectSeq(s0, LAMBDA s : s.properties.word_count = parsedFilters.word_count)
              ELSE s0
        s2 == IF Defined(parsedFilters, "is_palindrome")
              THEN SelectSeq(s1, LAMBDA s : s.properties.is_palindrome = parsedFilters.is_palindrome)
              ELSE s1
        s3 == IF Defined(parsedFilters, "min_length")
              THEN SelectSeq(s2, LAMBDA s : s.properties.length >= parsedFilters.min_length)
              ELSE s2
        s4 == IF Defined(parsedFilters, "contains_character")
              THEN SelectSeq(s3, LAMBDA s : Includes(s.value, parsedFilters.contains_character))
              ELSE s3
    IN s4

\* the conflict check with `is_palindrome !== undefined` for `=== false`
ConflictingFiltersAnyPalindrome(parsedFilters) ==
    /\ Defined(parsedFilters, "word_count")
    /\ parsedFilters.word_count = 1
    /\ Defined(parsedFilters, "is_palindrome")

\* the check for conflicting filters
ConflictingFilters(parsedFilters) ==
    /\ Defined(parsedFilters, "word_count")
    /\ parsedFilters.word_count = 1
    /\ Defined(parsedFilters, "is_palindrome")
    /\ parsedFilters.is_palindrome = FALSE

FilterByNaturalLanguage(store, query) ==
    IF query.type # "string" \/ query.val = <<>>
    THEN [store |-> store,
          res |-> Json(400, [error |-> "Bad Request : Unable to parse natural language query"])]
    ELSE LET parsedFilters == ParseNaturalLanguage(query.val)
             filteredStrings == ApplyParsedFilters(store, parsedFilters)
         IN IF ConflictingFilters(parsedFilters)
            THEN [store |-> store,
                  res |-> Json(422, [error |-> "Unprocessable Entity: Query parsed but resulted in conflicting filters"])]
            ELSE [store |-> store,
                  res |-> Json(200, [data |-> filteredStrings,
                                     count |-> Len(filteredStrings),
                                     interpreted_query |->
                                        [original |-> query.val,
                                         parsed_filters |-> parsedFilters]])]

(***************************************************************************)
(* 2. GET /strings/:stringValue                                            *)
(***************************************************************************)
GetString(store, stringValue) ==
    LET hash == Hash(stringValue)
    IN IF ~MapHas(store, hash)
       THEN [store |-> store,
             res |-> Json(404, [error |-> "Not Found: String does not exist in the system"])]
       ELSE [store |-> store, res |-> Json(200, MapGet(store, hash))]

(***************************************************************************)
(* 5. DELETE /strings/:stringValue                                         *)
(***************************************************************************)
DeleteString(store, stringValue) ==
    LET hash == Hash(stringValue)
    IN IF ~MapHas(store, hash)
       THEN [store |-> store,
             res |-> Json(404, [error |-> "Not Found: String does not exist in the system"])]
       ELSE [store |-> MapDelete(store, hash), res |-> NoContent(204)]

(***************************************************************************)
(* 3. GET /strings                                                         *)
(***************************************************************************)
BadRequest(store, message) == [store |-> store, res |-> Json(400, [error |-> message])]

\* the predicates of the five filter steps
KeepsPalindrome(s, isPalindrome) == s.properties.is_palindrome = isPalindrome
KeepsMinLength(s, minLength) == s.properties.length >= minLength
\* max_length taken as a strict bound
KeepsMaxLengthStrict(s, maxLength) == s.properties.length < maxLength
KeepsMaxLength(s, maxLength) == s.properties.length <= maxLength
KeepsWordCount(s, wordCount) == s.properties.word_count = wordCount
KeepsCharacter(s, containsCharacter) == Includes(s.value, containsCharacter)

\* query is req.query: the parameters present, each a string
GetStrings(store, query) ==
    LET s0 == MapValues(store)
        \* is_palindrome filter
        isPalindrome == query.is_palindrome = LitTrue
        s1 == IF Defined(query, "is_palindrome")
              THEN SelectSeq(s0, LAMBDA s : KeepsPalindrome(s, isPalindrome))
              ELSE s0
        a1 == IF Defined(query, "is_palindrome")
              THEN Put(EmptyObject, "is_palindrome", isPalindrome) ELSE EmptyObject
        \* min_length filter
        minLength == ParseInt(query.min_length)
        s2 == IF Defined(query, "min_length")
              THEN SelectSeq(s1, LAMBDA s : KeepsMinLength(s, minLength.val))
              ELSE s1
        a2 == IF Defined(query, "min_length")
              THEN Put(a1, "min_length", minLength.val) ELSE a1
        \* max_length filter
        maxLength == ParseInt(query.max_length)
        s3 == IF Defined(query, "max_length")
              THEN SelectSeq(s2, LAMBDA s : KeepsMaxLength(s, maxLength.val))
              ELSE s2
        a3 == IF Defined(query, "max_length")
              THEN Put(a2, "max_length", maxLength.val) ELSE a2
        \* word_count filter
        wordCount == ParseInt(query.word_count)
        s4 == IF Defined(query, "word_count")
              THEN SelectSeq(s3, LAMBDA s : KeepsWordCount(s, wordCount.val))
              ELSE s3
        a4 == IF Defined(query, "word_count")
              THEN Put(a3, "word_count", wordCount.val) ELSE a3
        \* contains_character filter
        containsCharacter == query.contains_character
        s5 == IF Defined(query, "contains_character")
              THEN SelectSeq(s4, LAMBDA s : KeepsCharacter(s, containsCharacter))
              ELSE s4
        a5 == IF Defined(query, "contains_character")
              THEN Put(a4, "contains_character", containsCharacter) ELSE a4
    IN IF Defined(query, "min_length") /\ IsNaN(minLength)
       THEN BadRequest(store, "Bad Request: Invalid query parameter value for min_length")
       ELSE IF Defined(query, "max_length") /\ IsNaN(maxLength)
       THEN BadRequest(store, "Bad Request: Invalid query parameter value for max_length")
       ELSE IF Defined(query, "word_count") /\ IsNaN(wordCount)
       THEN BadRequest(store, "Bad Request: Invalid query parameter value for word_count")
       ELSE IF Defined(query, "contains_character") /\ Len(containsCharacter) # 1
       THEN BadRequest(store, "Bad Request: contains_character must be a single character")
       ELSE [store |-> store,
             res |-> Json(200,
                  IF DOMAIN a5 # {}
                  THEN [data |-> s5, count |-> Len(s5), filters_applied |-> a5]
                  ELSE [data |-> s5, count |-> Len(s5)])]

(***************************************************************************)
(* The requests of the model.                                              *)
(***************************************************************************)
Emoji == <<"\\uD83D", "\\uDE00">>

\* the strings a JSON body can carry as "value" (JSON escapes can spell a
\* surrogate that has no partner)
Values ==
    {<<>>, <<"A","a">>, <<"a"," ","z">>, Emoji, <<"\\uD83D">>, <<ReplacementChar>>}

Bodies ==
    {[value |-> Undefined], [value |-> NumberValue(42)]}
        \cup {[value |-> StringValue(v)] : v \in Values}

\* the instants `new Date()` can return
Instants == {"2025-10-20T10:00:00.000Z", "2025-10-20T10:00:00.001Z"}

\* a string of Unicode scalar values: no surrogate without its partner
WellFormed(s) == Utf8Encode(s) = CodePoints(s)

\* req.params.stringValue: a path segment, percent-decoded; it is never empty
\* and always well formed
PathParams == {v \in Values : v # <<>> /\ WellFormed(v)}

\* req.query of GET /strings: each parameter absent or one of a few strings
RawIsPalindrome == {LitTrue, <<"f","a","l","s","e">>, <<"m","a","y","b","e">>}
RawMinLength == {<<"2">>, <<"1","x">>}
RawMaxLength == {<<"2">>, <<"a","b","c">>}
RawWordCount == {<<"1">>, <<"-","1">>}
RawContainsCharacter == {LitA, Emoji}

Optional(S) == {{}} \cup {{x} : x \in S}

QueryObject(ip, mn, mx, wc, cc) ==
    LET given == [k \in {"is_palindrome", "min_length", "max_length",
                         "word_count", "contains_character"} |->
                    CASE k = "is_palindrome" -> ip
                      [] k = "min_length" -> mn
                      [] k = "max_length" -> mx
                      [] k = "word_count" -> wc
                      [] OTHER -> cc]
    IN [k \in {x \in DOMAIN given : given[x] # {}} |-> CHOOSE v \in given[k] : TRUE]

FilterQueries ==
    {QueryObject(ip, mn, mx, wc, cc) :
        ip \in Optional(RawIsPalindrome), mn \in Optional(RawMinLength),
        mx \in Optional(RawMaxLength), wc \in Optional(RawWordCount),
        cc \in Optional(RawContainsCharacter)}

\* req.query.query of the natural-language route: absent, repeated (an array),
\* or a string put together from one phrase of each kind
PhrasesWord == {<<>>, <<"A"," ","S","i","n","g","l","e"," ","W","o","r","d"," ">>}
PhrasesPalindrome == {<<>>, <<"p","a","l","i","n","d","r","o","m","i","c"," ">>, <<"n","o","t"," ","p","a","l","i","n","d","r","o","m","i","c"," ">>}
PhrasesCharacter == {<<>>, <<"f","i","r","s","t"," ","v","o","w","e","l"," ">>, <<"l","e","t","t","e","r"," ","z"," ">>, <<"l","e","t","t","e","r"," ","z"," ","f","i","r","s","t"," ","v","o","w","e","l"," ">>}
PhrasesLength == {<<>>, <<"l","o","n","g","e","r"," ","t","h","a","n"," ","1"," ","c","h","a","r","a","c","t","e","r","s">>, <<"l","o","n","g","e","r"," ","t","h","a","n"," ","2"," ","c","h","a","r","s">>}

NaturalQueries ==
    {Undefined, ArrayValue(<<LitA, LitZ>>), StringValue(<<" ">>), StringValue(<<" ", "\t">>)}
        \cup {StringValue(w \o p \o c \o l) :
                w \in PhrasesWord, p \in PhrasesPalindrome,
                c \in PhrasesCharacter, l \in PhrasesLength}

(***************************************************************************)
(* The state machine: Node runs one handler at a time, to completion, and  *)
(* the response is sent before the next request is taken up.               *)
(***************************************************************************)
Idle == [op |-> "idle"]
NoResponse == [status |-> 0]

Init ==
    /\ stringStore = <<>>
    /\ request = Idle
    /\ response = NoResponse

\* a handler runs on a request: it leaves a store and sends a response
Handle(req, result) ==
    /\ request.op = "idle"
    /\ LET done == result
       IN /\ Len(done.store) <= MaxStore
          /\ request' = req
          /\ stringStore' = done.store
          /\ response' = done.res

\* `new Date()` reads the system clock: date is the instant it returns
Create ==
    \E body \in Bodies, date \in Instants :
        Handle([op |-> "POST /strings", body |-> body, date |-> date],
               PostStrings(stringStore, date, body))

NaturalLanguage ==
    \E query \in NaturalQueries :
        Handle([op |-> "GET /strings/filter-by-natural-language", query |-> query],
               FilterByNaturalLanguage(stringStore, query))

Lookup ==
    \E stringValue \in PathParams :
        Handle([op |-> "GET /strings/:stringValue", stringValue |-> stringValue],
               GetString(stringStore, stringValue))

List ==
    \E query \in FilterQueries :
        Handle([op |-> "GET /strings", query |-> query],
               GetStrings(stringStore, query))

Delete ==
    \E stringValue \in PathParams :
        Handle([op |-> "DELETE /strings/:stringValue", stringValue |-> stringValue],
               DeleteString(stringStore, stringValue))

\* the response has gone out; the next request can be taken up
Respond ==
    /\ request.op # "idle"
    /\ request' = Idle
    /\ response' = NoResponse
    /\ UNCHANGED stringStore

Next == Create \/ NaturalLanguage \/ Lookup \/ List \/ Delete \/ Respond

Spec == Init /\ [][Next]_vars

(***************************************************************************)
(* The properties.                                                         *)
(***************************************************************************)
Elements(seq) == {seq[i] : i \in 1..Len(seq)}

\* the records the store holds, and their values
StoredRecords == {stringStore[i].val : i \in 1..Len(stringStore)}
StoredValues == {r.value : r \in StoredRecords}

LitFalse == <<"f","a","l","s","e">>
NumericFilters == {"min_length", "max_length", "word_count"}

OnlyDigits(raw) == raw # <<>> /\ \A i \in 1..Len(raw) : DigitValue(raw[i]) >= 0

\* a filter value of the expected type: a boolean, an integer >= 0, one
\* character (one UTF-16 code unit)
ValidFilterValue(k, raw) ==
    CASE k = "is_palindrome" -> raw \in {LitTrue, LitFalse}
      [] k \in NumericFilters -> OnlyDigits(raw)
      [] OTHER -> Len(raw) = 1

\* the value a valid filter value stands for
TypedFilterValue(k, raw) ==
    CASE k = "is_palindrome" -> raw = LitTrue
      [] k \in NumericFilters -> DecimalValue(raw)
      [] OTHER -> raw

\* record r meets the constraint v of filter k
Satisfies(r, k, v) ==
    CASE k = "is_palindrome" -> r.properties.is_palindrome = v
      [] k = "min_length" -> r.properties.length >= v
      [] k = "max_length" -> r.properties.length <= v
      [] k = "word_count" -> r.properties.word_count = v
      [] OTHER -> Includes(r.value, v)

IsListing == request.op = "GET /strings"

AllFiltersValid ==
    \A k \in DOMAIN request.query : ValidFilterValue(k, request.query[k])

InvalidValueMessage(k) ==
    CASE k = "is_palindrome" -> "Bad Request: Invalid query parameter value for is_palindrome"
      [] k = "min_length" -> "Bad Request: Invalid query parameter value for min_length"
      [] k = "max_length" -> "Bad Request: Invalid query parameter value for max_length"
      [] OTHER -> "Bad Request: Invalid query parameter value for word_count"

InvalidTypedFilters ==
    {k \in DOMAIN request.query \cap ({"is_palindrome"} \cup NumericFilters) :
        ~ValidFilterValue(k, request.query[k])}

\* C2: a GET /strings with a present is_palindrome, min_length, max_length or
\* word_count value that is not of its type (a boolean; an integer >= 0) fails
\* with InvalidFilterValue naming an offending filter, and returns no data.
C2_InvalidFilterValueRejected ==
    (IsListing /\ InvalidTypedFilters # {}) =>
        /\ response.status = 400
        /\ "data" \notin DOMAIN response.body
        /\ \E k \in InvalidTypedFilters : response.body.error = InvalidValueMessage(k)

IsNatural == request.op = "GET /strings/filter-by-natural-language"

\* empty, or white space only
Blank(s) == \A i \in 1..Len(s) : s[i] \in WhiteSpace

IsNonBlankQuery ==
    IsNatural /\ request.query.type = "string" /\ ~Blank(request.query.val)

\* the rule table of the translator, read as a table: which filters a
\* lower-cased query yields, and with which values
RuleTable(lq) ==
    LET yields == [k \in {"word_count", "is_palindrome", "contains_character", "min_length"} |->
                     CASE k = "word_count" -> Includes(lq, LitSingleWord)
                       [] k = "is_palindrome" ->
                            Includes(lq, LitNotPalindromic) \/ Includes(lq, LitPalindromic)
                       [] k = "contains_character" ->
                            Includes(lq, LitLetterZ) \/ Includes(lq, LitFirstVowel)
                       [] OTHER -> LongerThanMatches(lq) # {}]
    IN [k \in {x \in DOMAIN yields : yields[x]} |->
          CASE k = "word_count" -> 1
            [] k = "is_palindrome" -> ~Includes(lq, LitNotPalindromic)
            [] k = "contains_character" ->
                 IF Includes(lq, LitLetterZ) THEN LitZ ELSE LitA
            [] OTHER -> DecimalValue(LongerThanGroup(lq)) + 1]

\* the one combination the translator refuses
Refused(filters) ==
    /\ {"word_count", "is_palindrome"} \subseteq DOMAIN filters
    /\ filters.word_count = 1
    /\ filters.is_palindrome = FALSE

\* C3: for a non-blank query the filter set the translator derives is the one
\* of the rule table applied to the lower-cased query: the response of a
\* successful request carries exactly that set, and the only request that does
\* not succeed is the one whose table holds the refused combination ("longer
\* than" without the numeric pattern adds no filter and is no error).
C3_ParsedFiltersFollowRuleTable ==
    IsNonBlankQuery =>
        LET table == RuleTable(ToLowerCase(request.query.val))
        IN IF response.status = 200
           THEN response.body.interpreted_query.parsed_filters = table
           ELSE response.status = 422 /\ Refused(table)

\* C3, its case: "not palindromic" wins over "palindromic", "letter z" over
\* "first vowel", and "longer than 1 characters" yields min_length 2
C3_Witness ==
    /\ IsNonBlankQuery
    /\ response.status = 200
    /\ Includes(ToLowerCase(request.query.val), LitFirstVowel)
    /\ response.body.interpreted_query.parsed_filters =
          [is_palindrome |-> FALSE, contains_character |-> LitZ, min_length |-> 2]

\* C4: a non-blank query whose derived filter set holds word_count = 1 and
\* is_palindrome = false fails with ConflictingFilters and returns no data,
\* whatever the store holds; every other non-blank query succeeds with exactly
\* the stored records that meet the derived filter set, their count, and the
\* interpretation: the query as given and the derived filter set.
C4_ConflictOrMatchingRecords ==
    IsNonBlankQuery =>
        LET table == RuleTable(ToLowerCase(request.query.val))
            body == response.body
            matching == {r \in StoredRecords :
                            \A k \in DOMAIN table : Satisfies(r, k, table[k])}
        IN IF Refused(table)
           THEN /\ response.status = 422
                /\ "data" \notin DOMAIN body
           ELSE /\ response.status = 200
                /\ Elements(body.data) = matching
                /\ Len(body.data) = Cardinality(matching)
                /\ body.count = Len(body.data)
                /\ body.interpreted_query.original = request.query.val
                /\ body.interpreted_query.parsed_filters = table

\* C4, its case: the conflict is reported although the store holds a record
\* of one word that is no palindrome
C4_Witness ==
    /\ IsNonBlankQuery
    /\ response.status = 422
    /\ \E r \in StoredRecords :
          r.properties.word_count = 1 /\ ~r.properties.is_palindrome

\* C5: the translator fails with BadQuery, and returns no data, when the
\* query is absent, empty or white space only.
C5_BlankQueryRejected ==
    (IsNatural /\ (request.query.type # "string" \/ Blank(request.query.val))) =>
        /\ response.status = 400
        /\ "data" \notin DOMAIN response.body

IsCreating == request.op = "POST /strings"
IsLookup == request.op = "GET /strings/:stringValue"
IsDeleting == request.op = "DELETE /strings/:stringValue"

\* C6: inserting a value that is stored fails with Conflict and leaves the
\* store as it is, so the record held for the value (id, value, properties,
\* created_at) stays the one of the first insertion; and the store never holds
\* two records of one value.
C6_DuplicateInsertConflicts ==
    [][/\ (/\ request'.op = "POST /strings"
           /\ request'.body.value.type = "string"
           /\ request'.body.value.val \in StoredValues)
          => (response'.status = 409 /\ stringStore' = stringStore)
       /\ \A i, j \in 1..Len(stringStore') :
             stringStore'[i].val.value = stringStore'[j].val.value => i = j]_vars

\* C6, its case: the second insertion of a stored value, at another instant
\* than the first, was refused and the record kept its created_at
C6_Witness ==
    /\ IsCreating
    /\ response.status = 409
    /\ \E r \in StoredRecords :
          /\ r.value = request.body.value.val
          /\ r.created_at # request.date

\* C7: a delete of a stored value succeeds and removes exactly the record of
\* that value; a delete of a value that is not stored fails with NotFound and
\* changes nothing.
C7_DeleteRemovesOrNotFound ==
    [][(request.op = "idle" /\ request'.op = "DELETE /strings/:stringValue") =>
          IF request'.stringValue \in StoredValues
          THEN /\ response'.status = 204
               /\ stringStore' =
                     SelectSeq(stringStore, LAMBDA e : e.val.value # request'.stringValue)
          ELSE /\ response'.status = 404
               /\ stringStore' = stringStore]_vars

\* C8: a lookup by the raw value s returns a record iff a record of value s
\* is held (s was created and not deleted since), and the record is the one
\* created for s: its id is hash(s), its value s, its properties those of s;
\* otherwise the lookup fails with NotFound.
C8_LookupReturnsCreatedRecord ==
    IsLookup =>
        IF request.stringValue \in StoredValues
        THEN /\ response.status = 200
             /\ response.body \in StoredRecords
             /\ response.body.value = request.stringValue
             /\ response.body.id = Hash(request.stringValue)
             /\ response.body.properties = analyzeString(request.stringValue)
        ELSE response.status = 404

RECURSIVE SumOf(_, _)
SumOf(f, keys) ==
    IF keys = {} THEN 0
    ELSE LET k == CHOOSE x \in keys : TRUE IN f[k] + SumOf(f, keys \ {k})

\* C9: in every stored record the counts of character_frequency_map add up
\* to length, and unique_characters is the number of its keys.
C9_FrequencyMapConsistent ==
    \A r \in StoredRecords :
        /\ SumOf(r.properties.character_frequency_map,
                 DOMAIN r.properties.character_frequency_map) = r.properties.length
        /\ r.properties.unique_characters =
              Cardinality(DOMAIN r.properties.character_frequency_map)

\* C10: the store changes only by a successful create, which adds exactly one
\* record after those held, and by a successful delete, which removes exactly
\* one record; lookups, both filter requests and every request that ends in an
\* error leave the store, and so every record in it, as they were.
C10_StoreChangesOnlyOnSuccess ==
    [][LET added == /\ Len(stringStore') = Len(stringStore) + 1
                    /\ SubSeq(stringStore', 1, Len(stringStore)) = stringStore
           removed == \E i \in 1..Len(stringStore) :
                         stringStore' = SubSeq(stringStore, 1, i - 1)
                                           \o SubSeq(stringStore, i + 1, Len(stringStore))
       IN /\ (request'.op = "POST /strings" /\ response'.status = 201) => added
          /\ (request'.op = "DELETE /strings/:stringValue" /\ response'.status = 204)
                => removed
          /\ stringStore' # stringStore =>
                \/ request'.op = "POST /strings" /\ response'.status = 201
                \/ request'.op = "DELETE /strings/:stringValue" /\ response'.status = 204]_vars

\* C10, its case: a delete succeeded and took one record of two
C10_Witness ==
    /\ IsDeleting
    /\ response.status = 204
    /\ Len(stringStore) = 1

====
